---- MODULE Spec2Model ----
(***************************************************************************)
(* Session / credential lifecycle and token shifting of the shipping       *)
(* backend (users, shifting, api_v2).  The database tables user_sessions   *)
(* and token_shifts are sequences indexed by their auto-increment primary  *)
(* key; an HTTP handler is one action; resp is the response it returns,    *)
(* pending until SendResponse.  Time is in seconds.                         *)
(***************************************************************************)
EXTENDS Integers, Sequences, FiniteSets, TLC

\* ---- bounds of the model ------------------------------------------------
\* Rows in user_sessions, rows in token_shifts, advances of the clock.
MaxSessions == 2
MaxShifts == 1
MaxTicks == 1
\* Credentials in the clients' hands beyond which no refresh token is exchanged.
MaxTokens == 4
\* Rows in shipments of the shifting app.
MaxShipments == 1

\* ---- constants of the program --------------------------------------------
ACCESS_TOKEN_LIFETIME == 3600
REFRESH_TOKEN_LIFETIME == 86400
SESSION_TTL == 86400
SHIFT_TTL_DEFAULT == 3600
EXPIRES_IN_MIN == 300
EXPIRES_IN_MAX == 86400

Principals == {"alice", "bob"}
Passwords == {"pw1", "pw2"}

\* How far the clock moves between two requests: to the expiry of the
\* shortest shift (access tokens still valid), or to that of a session.
TickSteps == {EXPIRES_IN_MIN, SESSION_TTL}

\* allowed_services of TokenShiftRequestSerializer.validate_target_service
allowed_services ==
    {"user-service", "shipping-service", "tracking-service", "payment-service",
     "analytics-service", "notification-service", "api-gateway", "admin-panel"}

\* valid_services of api_v2.views.TokenShiftRequestViewV2.post
valid_services ==
    {"user-service", "shipping-service", "tracking-service", "analytics-service"}

\* Optional request fields are sequences of length 0 (omitted) or 1.
Omitted == << >>
Given(x) == << x >>

\* Values of target_service a client sends: the two allowed targets that are
\* also the source identities of the endpoints, an unknown one, or none.
TargetInputs ==
    {Given("shipping-service"), Given("api-gateway"), Given("bogus-service"), Omitted}

\* Values of expires_in a client sends: the boundaries, their neighbours, or none.
ExpiresInputs ==
    {Given(EXPIRES_IN_MIN - 1), Given(EXPIRES_IN_MIN), Given(EXPIRES_IN_MAX),
     Given(EXPIRES_IN_MAX + 1), Omitted}

\* Values of the service field sent to the token validation serializer.
ServiceInputs == {"shipping-service", "api-gateway", "default"}

\* ---- credentials ---------------------------------------------------------
\* A credential string.  kind "access" is a signed JWT access token with the
\* claims user_id, exp, jti and (when re-signed with it) service; kind
\* "refresh" is a signed JWT refresh token; kind "simulated" is the string
\* "shifted_token_<uuid>" and kind "malformed" any other string, no JWT at all.
NoToken == [kind |-> "none", user |-> "", exp |-> 0, jti |-> 0, service |-> ""]

\* An access token without a jti claim: two tokens minted for one user at one
\* time are the same string.
MutTokenWithoutJti(u, t, j) ==
    [kind |-> "access", user |-> u, exp |-> t + ACCESS_TOKEN_LIFETIME,
     jti |-> 0, service |-> ""]

\* RefreshToken.for_user(user).access_token: a new access token for u minted
\* at time t; every read of the property mints another one (new jti).
AccessToken(u, t, j) ==
    [kind |-> "access", user |-> u, exp |-> t + ACCESS_TOKEN_LIFETIME,
     jti |-> j, service |-> ""]

SimulatedToken(j) ==
    [kind |-> "simulated", user |-> "", exp |-> 0, jti |-> j, service |-> ""]

\* RefreshToken.for_user(user), and a rotated refresh token (set_jti, set_exp):
\* a refresh token for u minted at time t.
RefreshToken(u, t, j) ==
    [kind |-> "refresh", user |-> u, exp |-> t + REFRESH_TOKEN_LIFETIME,
     jti |-> j, service |-> ""]

\* A string that is no token.
MalformedToken == [NoToken EXCEPT !.kind = "malformed"]

VARIABLES
    now,        \* timezone.now()
    ticks,      \* how often the clock has advanced
    users,      \* table users: username -> [registered, password]
    sessions,   \* table user_sessions, indexed by id
    shifts,     \* table token_shifts, indexed by id
    issued,     \* credentials the clients hold (returned in some response)
    jti,        \* number of tokens minted so far (stands for uuid4 of the jti claim)
    resp,       \* the response of the last request
    shipments,  \* table shipments of the shifting app, indexed by id
    routed,     \* multi-tenant variant: DATABASE_ROUTERS lists TenantRouter
    tenant_id,  \* multi-tenant variant: connection.tenant_id / request.tenant_id
    tenant_shipments,
                \* multi-tenant variant: table shipments of shipping_service in
                \* each database, indexed by id
    threads,    \* the requests being handled step by step, one per server
                \* thread, with the thread's local variables
    role,       \* column users.role: username -> role, "" without a row
    user_tenant \* multi-tenant variant: column users.tenant_id of each user

vars == << now, ticks, users, sessions, shifts, issued, jti, resp,
           shipments, routed, tenant_id, tenant_shipments, threads,
           role, user_tenant >>

\* The state of the shipment endpoints.
tenancy == << shipments, routed, tenant_id, tenant_shipments >>

\* ---- responses -----------------------------------------------------------
\* op: the operation; status: the HTTP status; user: request.user; id: the
\* session_id / shift_id of the request or of the created row; ids: the rows
\* of a listing, in order; source: the service identity of the shift endpoint;
\* service, expires_in: the request's fields; token: the credential returned
\* (or, for validate and logout, presented); refresh: the refresh credential
\* presented; detail: the body shows part of a record; matches: the username
\* and password of a login request are those of a registered user;
\* is_expired: the is_expired field of each row of a shift history; db: the
\* database the request's query went to; tenant: the tenant scope of the
\* principal of a request to the multi-tenant variant; member, target: the
\* user of the multi-tenant variant who sent the request and the user the
\* request names.
NoResponse ==
    [op |-> "none", status |-> 0, user |-> "", id |-> 0,
     ids |-> << >>, source |-> "", service |-> "", expires_in |-> Omitted,
     token |-> NoToken, refresh |-> NoToken, detail |-> FALSE, matches |-> FALSE,
     is_expired |-> << >>, db |-> "", tenant |-> "", member |-> "", target |-> ""]

Response(op, status, user) ==
    [NoResponse EXCEPT !.op = op, !.status = status, !.user = user]

\* The application handles one request at a time: a handler starts when no
\* response is pending, and the pending response is then sent to the client.
Idle == resp = NoResponse

SendResponse ==
    /\ ~Idle
    /\ resp' = NoResponse
    /\ UNCHANGED << role, user_tenant, threads, now, ticks, users, sessions, shifts, issued, jti, tenancy >>

\* ---- authentication ------------------------------------------------------
\* JWTAuthentication with the SIMPLE_JWT settings: the token is a signed
\* access token, its exp claim is in the future and its user exists.  No
\* table of the application is consulted.
JWTAuthentication(t) ==
    /\ t.kind = "access"
    /\ t.exp > now
    /\ users[t.user].registered

\* A request to any protected endpoint whose credential is rejected: 401.
Unauthorized(t) ==
    /\ Idle /\ t \in issued
    /\ ~JWTAuthentication(t)
    /\ resp' = Response("request", 401, "")
    /\ UNCHANGED << role, user_tenant, threads, now, ticks, users, sessions, shifts, issued, jti, tenancy >>

\* ---- the clock -----------------------------------------------------------
Tick(d) ==
    /\ Idle /\ ticks < MaxTicks
    /\ now' = now + d
    /\ ticks' = ticks + 1
    /\ resp' = NoResponse
    /\ UNCHANGED << role, user_tenant, threads, users, sessions, shifts, issued, jti, tenancy >>

\* ---- table user_sessions -------------------------------------------------
\* UserSession.objects.create(user=, session_token=, expires_at=now+24h);
\* is_active defaults to True, last_activity is auto_now.
NewSession(u, tok, t) ==
    [user |-> u, session_token |-> tok, expires_at |-> t + SESSION_TTL,
     is_active |-> TRUE, last_activity |-> t]

\* An upsert keyed by the user alone.
MutUpsertByUser(ss, u, tok, t) ==
    IF \E i \in DOMAIN ss : ss[i].user = u
    THEN [i \in DOMAIN ss |->
            IF ss[i].user = u
            THEN [ss[i] EXCEPT !.session_token = tok, !.expires_at = t + SESSION_TTL,
                               !.is_active = TRUE, !.last_activity = t]
            ELSE ss[i]]
    ELSE Append(ss, NewSession(u, tok, t))

\* UserSession.objects.update_or_create(user=, session_token=, defaults=...):
\* the row with that key gets the defaults, or a new row is inserted.
update_or_create(ss, u, tok, t) ==
    IF \E i \in DOMAIN ss : ss[i].user = u /\ ss[i].session_token = tok
    THEN [i \in DOMAIN ss |->
            IF ss[i].user = u /\ ss[i].session_token = tok
            THEN [ss[i] EXCEPT !.expires_at = t + SESSION_TTL, !.is_active = TRUE,
                               !.last_activity = t]
            ELSE ss[i]]
    ELSE Append(ss, NewSession(u, tok, t))

\* order_by('-last_activity') over a set of ids; rows with equal keys come
\* in primary-key order.
RECURSIVE order_by_last_activity(_, _)
order_by_last_activity(ss, S) ==
    IF S = {} THEN << >>
    ELSE LET m == CHOOSE i \in S : \A j \in S :
                    \/ ss[i].last_activity > ss[j].last_activity
                    \/ ss[i].last_activity = ss[j].last_activity /\ i <= j
         IN << m >> \o order_by_last_activity(ss, S \ {m})

\* The listing without its expires_at__gt filter.
MutListIgnoresExpiry(ss, u, t) ==
    order_by_last_activity(ss, {i \in DOMAIN ss : ss[i].user = u /\ ss[i].is_active})

\* UserSessionListView.get_queryset: the ids of the rows
\* filter(user=u, is_active=True, expires_at__gt=now).order_by('-last_activity')
UserSessionListView_get_queryset(ss, u, t) ==
    order_by_last_activity(ss,
        {i \in DOMAIN ss : ss[i].user = u /\ ss[i].is_active /\ ss[i].expires_at > t})

\* UserSessionListViewV2.get_queryset (api_v2/views_auth.py): the same query.
UserSessionListViewV2_get_queryset(ss, u, t) ==
    order_by_last_activity(ss,
        {i \in DOMAIN ss : ss[i].user = u /\ ss[i].is_active /\ ss[i].expires_at > t})

\* The cascade without expires_at = now.
MutCloseKeepsExpiry(ss, u, t) ==
    [i \in DOMAIN ss |->
        IF ss[i].user = u /\ ss[i].is_active
        THEN [ss[i] EXCEPT !.is_active = FALSE]
        ELSE ss[i]]

\* UserSession.objects.filter(user=u, is_active=True)
\*     .update(is_active=False, expires_at=now)       (password change)
close_all_sessions(ss, u, t) ==
    [i \in DOMAIN ss |->
        IF ss[i].user = u /\ ss[i].is_active
        THEN [ss[i] EXCEPT !.is_active = FALSE, !.expires_at = t]
        ELSE ss[i]]

\* UserSession.objects.filter(user=u, session_token=str(request.auth))
\*     .update(is_active=False, expires_at=now)       (logout)
close_session(ss, u, tok, t) ==
    [i \in DOMAIN ss |->
        IF ss[i].user = u /\ ss[i].session_token = tok
        THEN [ss[i] EXCEPT !.is_active = FALSE, !.expires_at = t]
        ELSE ss[i]]

\* ---- registration and login ----------------------------------------------
\* users.views.UserRegistrationView.create: the serializer rejects unequal
\* passwords and a taken username; otherwise the user is saved, one access
\* token is minted, stored as the session's credential and returned together
\* with the refresh token.  The request names no role: the column gets its
\* default.
UserRegistrationView_create(u, password, password2) ==
    /\ Idle /\ Len(sessions) < MaxSessions
    /\ IF password # password2 \/ users[u].registered
       THEN /\ resp' = Response("register", 400, "")
            /\ UNCHANGED << users, role, sessions, issued, jti >>
       ELSE LET refresh == RefreshToken(u, now, jti + 1)
                access_token == AccessToken(u, now, jti + 2)
            IN
            /\ users' = [users EXCEPT ![u] = [registered |-> TRUE, password |-> password]]
            /\ role' = [role EXCEPT ![u] = "shipper"]
            /\ sessions' = Append(sessions, NewSession(u, access_token, now))
            /\ issued' = issued \cup {refresh, access_token}
            /\ jti' = jti + 2
            /\ resp' = [Response("register", 201, u) EXCEPT
                           !.id = Len(sessions) + 1, !.token = access_token]
    /\ UNCHANGED << user_tenant, threads, now, ticks, shifts, tenancy >>

\* User.ROLE_CHOICES
ROLE_CHOICES == {"admin", "shipper", "receiver", "driver"}

\* What a client puts into role: nothing, a role, or another string.
RoleInputs == {Omitted, Given("driver"), Given("superadmin")}

\* api_v2.views.UserRegistrationViewV2.post: 400 without a password or for a
\* taken username; otherwise create_user(..., role=role) with the role as
\* sent ('shipper' when absent), a session keyed by one read of
\* refresh.access_token and an answer that carries another read of it.
UserRegistrationViewV2_post(u, password, role_input) ==
    /\ Idle /\ Len(sessions) < MaxSessions
    /\ IF password = Omitted \/ users[u].registered
       THEN /\ resp' = Response("register", 400, "")
            /\ UNCHANGED << users, role, sessions, issued, jti >>
       ELSE LET refresh == RefreshToken(u, now, jti + 1)
                session_token == AccessToken(u, now, jti + 2)
                access == AccessToken(u, now, jti + 3)
            IN
            /\ users' = [users EXCEPT ![u] =
                            [registered |-> TRUE, password |-> password[1]]]
            /\ role' = [role EXCEPT ![u] =
                            IF role_input = Omitted THEN "shipper" ELSE role_input[1]]
            /\ sessions' = Append(sessions, NewSession(u, session_token, now))
            /\ issued' = issued \cup {refresh, access}
            /\ jti' = jti + 3
            /\ resp' = [Response("register", 201, u) EXCEPT
                           !.id = Len(sessions) + 1, !.token = access]
    /\ UNCHANGED << user_tenant, threads, now, ticks, shifts, tenancy >>

\* The username and password of a request are those of a registered user.
check_password(username, password) ==
    /\ username # Omitted /\ password # Omitted
    /\ users[username[1]].registered
    /\ users[username[1]].password = password[1]

\* users.views.UserLoginView.post: UserLoginSerializer.validate never puts
\* 'user' into validated_data, so the handler raises KeyError once the
\* serializer is valid; with a field missing the answer is 401.
UserLoginView_post(username, password) ==
    /\ Idle
    /\ IF username = Omitted \/ password = Omitted
       THEN resp' = Response("login", 401, "")
       ELSE resp' = [Response("login", 500, "") EXCEPT
                        !.matches = check_password(username, password)]
    /\ UNCHANGED << role, user_tenant, threads, now, ticks, users, sessions, shifts, issued, jti, tenancy >>

\* api_v2.views.UserLoginViewV2.post: authenticate(username, password); the
\* session row is keyed by one read of refresh.access_token and the response
\* carries another read of it.
UserLoginViewV2_post(username, password) ==
    /\ Idle /\ Len(sessions) < MaxSessions
    /\ IF username = Omitted \/ password = Omitted
       THEN /\ resp' = Response("login", 400, "")
            /\ UNCHANGED << sessions, issued, jti >>
       ELSE LET u == username[1] IN
            IF ~(users[u].registered /\ users[u].password = password[1])
            THEN /\ resp' = Response("login", 401, "")
                 /\ UNCHANGED << sessions, issued, jti >>
            ELSE LET refresh == RefreshToken(u, now, jti + 1)
                     session_token == AccessToken(u, now, jti + 2)
                     access == AccessToken(u, now, jti + 3)
                     after == update_or_create(sessions, u, session_token, now)
                 IN /\ sessions' = after
                    /\ issued' = issued \cup {refresh, access}
                    /\ jti' = jti + 3
                    /\ resp' = [Response("login", 200, u) EXCEPT
                                   !.matches = check_password(username, password),
                                   !.id = CHOOSE i \in DOMAIN after :
                                            /\ after[i].user = u
                                            /\ after[i].session_token = session_token,
                                   !.token = access]
    /\ UNCHANGED << role, user_tenant, threads, now, ticks, users, shifts, tenancy >>

\* ---- session endpoints ---------------------------------------------------
\* users.views.UserSessionListView (GET /users/sessions/)
UserSessionListView_get(t) ==
    /\ Idle /\ t \in issued /\ JWTAuthentication(t)
    /\ resp' = [Response("list_sessions", 200, t.user) EXCEPT
                   !.ids = UserSessionListView_get_queryset(sessions, t.user, now)]
    /\ UNCHANGED << role, user_tenant, threads, now, ticks, users, sessions, shifts, issued, jti, tenancy >>

\* api_v2.views_auth.UserSessionListViewV2
UserSessionListViewV2_get(t) ==
    /\ Idle /\ t \in issued /\ JWTAuthentication(t)
    /\ resp' = [Response("list_sessions", 200, t.user) EXCEPT
                   !.ids = UserSessionListViewV2_get_queryset(sessions, t.user, now)]
    /\ UNCHANGED << role, user_tenant, threads, now, ticks, users, sessions, shifts, issued, jti, tenancy >>

\* A revocation that also deactivates the shifts of the session's owner.
MutRevokeSessionCascades(t, session_id) ==
    /\ Idle /\ t \in issued /\ JWTAuthentication(t)
    /\ session_id \in DOMAIN sessions /\ sessions[session_id].user = t.user
    /\ sessions' = [sessions EXCEPT ![session_id] =
           [@ EXCEPT !.is_active = FALSE, !.expires_at = now, !.last_activity = now]]
    /\ shifts' = [i \in DOMAIN shifts |->
           IF shifts[i].user = t.user THEN [shifts[i] EXCEPT !.is_active = FALSE]
           ELSE shifts[i]]
    /\ resp' = [Response("revoke_session", 200, t.user) EXCEPT !.id = session_id]
    /\ UNCHANGED << role, user_tenant, threads, now, ticks, users, issued, jti, tenancy >>

\* A revocation that looks the session up by id alone.
MutRevokeAnySession(t, session_id) ==
    /\ Idle /\ t \in issued /\ JWTAuthentication(t)
    /\ IF session_id \in DOMAIN sessions
       THEN /\ sessions' = [sessions EXCEPT ![session_id] =
                   [@ EXCEPT !.is_active = FALSE, !.expires_at = now,
                             !.last_activity = now]]
            /\ resp' = [Response("revoke_session", 200, t.user) EXCEPT
                           !.id = session_id]
       ELSE /\ sessions' = sessions
            /\ resp' = [Response("revoke_session", 404, t.user) EXCEPT
                           !.id = session_id]
    /\ UNCHANGED << role, user_tenant, threads, now, ticks, users, shifts, issued, jti, tenancy >>

\* users.views.RevokeSessionView.post: get(id=session_id, user=request.user),
\* then is_active = False, expires_at = now, save() (auto_now last_activity).
RevokeSessionView_post(t, session_id) ==
    /\ Idle /\ t \in issued /\ JWTAuthentication(t)
    /\ IF session_id \in DOMAIN sessions /\ sessions[session_id].user = t.user
       THEN /\ sessions' = [sessions EXCEPT ![session_id] =
                   [@ EXCEPT !.is_active = FALSE, !.expires_at = now,
                             !.last_activity = now]]
            /\ resp' = [Response("revoke_session", 200, t.user) EXCEPT
                           !.id = session_id]
       ELSE /\ sessions' = sessions
            /\ resp' = [Response("revoke_session", 404, t.user) EXCEPT
                           !.id = session_id]
    /\ UNCHANGED << role, user_tenant, threads, now, ticks, users, shifts, issued, jti, tenancy >>

\* What a client puts into refresh_token at logout: nothing, a string that is
\* no token, or a refresh token it holds.
RefreshInputs ==
    {Omitted, Given(MalformedToken)}
        \cup {Given(r) : r \in {x \in issued : x.kind = "refresh"}}

\* users.views.UserLogoutView.post: with a refresh_token the try block raises
\* before the session is touched (TokenError for a malformed one; otherwise
\* AttributeError, RefreshToken has no blacklist() while the token_blacklist
\* app is not in INSTALLED_APPS) and the answer is 400; without one the
\* session keyed by (user, presented credential) is closed.
UserLogoutView_post(t, refresh_token) ==
    /\ Idle /\ t \in issued /\ JWTAuthentication(t)
    /\ IF refresh_token # Omitted
       THEN /\ sessions' = sessions
            /\ resp' = [Response("logout", 400, t.user) EXCEPT
                           !.token = t, !.refresh = refresh_token[1]]
       ELSE /\ sessions' = close_session(sessions, t.user, t, now)
            /\ resp' = [Response("logout", 205, t.user) EXCEPT !.token = t]
    /\ UNCHANGED << role, user_tenant, threads, now, ticks, users, shifts, issued, jti, tenancy >>

\* users.views.ChangePasswordView.post: ChangePasswordSerializer is built
\* without a context, so validate_old_password raises KeyError('request') as
\* soon as old_password is present; without it the serializer is invalid.
ChangePasswordView_post(t, old_password) ==
    /\ Idle /\ t \in issued /\ JWTAuthentication(t)
    /\ IF old_password = Omitted
       THEN resp' = Response("change_password", 400, t.user)
       ELSE resp' = Response("change_password", 500, t.user)
    /\ UNCHANGED << role, user_tenant, threads, now, ticks, users, sessions, shifts, issued, jti, tenancy >>

\* api_v2.views.ChangePasswordViewV2.post
ChangePasswordViewV2_post(t, old_password, new_password) ==
    /\ Idle /\ t \in issued /\ JWTAuthentication(t)
    /\ IF \/ old_password = Omitted \/ new_password = Omitted
          \/ users[t.user].password # old_password[1]
          \/ old_password = new_password
       THEN /\ resp' = Response("change_password", 400, t.user)
            /\ UNCHANGED << users, sessions >>
       ELSE /\ users' = [users EXCEPT ![t.user].password = new_password[1]]
            /\ sessions' = close_all_sessions(sessions, t.user, now)
            /\ resp' = Response("change_password", 200, t.user)
    /\ UNCHANGED << role, user_tenant, threads, now, ticks, shifts, issued, jti, tenancy >>

\* ---- token refresh -------------------------------------------------------
\* RefreshToken(raw): the string is a signed refresh token whose exp claim is
\* in the future.  The blacklist check belongs to the token_blacklist app,
\* which INSTALLED_APPS does not list, so no table is consulted.
RefreshToken_verify(r) ==
    /\ r.kind = "refresh"
    /\ r.exp > now

\* TokenRefreshView (POST /users/token/refresh/) under SIMPLE_JWT: a new
\* access token is minted from the refresh token; ROTATE_REFRESH_TOKENS gives
\* the refresh token a new jti and exp and returns it; BLACKLIST_AFTER_ROTATION
\* calls blacklist(), which RefreshToken lacks without the token_blacklist
\* app, and the AttributeError is passed over.
TokenRefreshView_post(r) ==
    /\ Idle /\ r \in issued
    /\ Cardinality(issued) < MaxTokens
    /\ IF ~RefreshToken_verify(r)
       THEN /\ resp' = [Response("refresh", 401, "") EXCEPT !.refresh = r]
            /\ UNCHANGED << issued, jti >>
       ELSE LET access == AccessToken(r.user, now, jti + 1)
                rotated == RefreshToken(r.user, now, jti + 2)
            IN /\ issued' = issued \cup {access, rotated}
               /\ jti' = jti + 2
               /\ resp' = [Response("refresh", 200, r.user) EXCEPT
                              !.token = access, !.refresh = r]
    /\ UNCHANGED << role, user_tenant, threads, now, ticks, users, sessions, shifts, tenancy >>

\* ---- token shifting ------------------------------------------------------
\* The target check letting every name through.
MutAcceptAnyTarget(value) == TRUE

\* TokenShiftRequestSerializer.validate_target_service
validate_target_service(value) == value \in allowed_services

\* TokenShiftRequestSerializer.validate_expires_in (the IntegerField's
\* min_value / max_value validators state the same two limits)
validate_expires_in(value) ==
    /\ ~(value < EXPIRES_IN_MIN)
    /\ ~(value > EXPIRES_IN_MAX)

\* TokenShiftRequestSerializer(data=request.data).is_valid(): target_service
\* is required, expires_in is not.
TokenShiftRequestSerializer_is_valid(target_service, expires_in) ==
    /\ target_service # Omitted
    /\ validate_target_service(target_service[1])
    /\ expires_in = Omitted \/ validate_expires_in(expires_in[1])

\* validated_data.get('expires_in', 3600), the field's default being 3600
validated_expires_in(expires_in) ==
    IF expires_in = Omitted THEN SHIFT_TTL_DEFAULT ELSE expires_in[1]

\* TokenShift.objects.create(...): is_active defaults to True, usage_count to
\* 0, shifted_at is auto_now_add.  truncated says whether original_token is
\* str(request.auth)[:50] + "..." or the whole credential.
NewTokenShift(u, original, truncated, shifted, source, target, expires_at, t) ==
    [user |-> u, original_token |-> original, truncated |-> truncated,
     shifted_token |-> shifted, source_service |-> source,
     target_service |-> target, expires_at |-> expires_at, is_active |-> TRUE,
     shifted_at |-> t, usage_count |-> 0]

\* shifting.views.TokenShiftRequestView.post (POST /shifting/token-shift/request/):
\* the decoded copy of the new token gets the service claim and is dropped;
\* the stored and returned credential is the token as minted.  expires_at is
\* now + 1 hour whatever expires_in was validated.
TokenShiftRequestView_post(t, target_service, expires_in) ==
    /\ Idle /\ t \in issued /\ JWTAuthentication(t)
    /\ Len(shifts) < MaxShifts
    /\ IF ~TokenShiftRequestSerializer_is_valid(target_service, expires_in)
       THEN /\ resp' = [Response("request_shift", 400, t.user) EXCEPT
                           !.expires_in = expires_in, !.source = "shipping-service",
                           !.service = IF target_service = Omitted THEN ""
                                       ELSE target_service[1]]
            /\ UNCHANGED << shifts, issued, jti >>
       ELSE LET new_token == AccessToken(t.user, now, jti + 1) IN
            /\ shifts' = Append(shifts,
                   NewTokenShift(t.user, t, FALSE, new_token, "shipping-service",
                                 target_service[1], now + SHIFT_TTL_DEFAULT, now))
            /\ issued' = issued \cup {new_token}
            /\ jti' = jti + 1
            /\ resp' = [Response("request_shift", 200, t.user) EXCEPT
                           !.id = Len(shifts) + 1, !.token = new_token,
                           !.service = target_service[1],
                           !.expires_in = expires_in, !.source = "shipping-service"]
    /\ UNCHANGED << role, user_tenant, threads, now, ticks, users, sessions, tenancy >>

\* api_v2.views_shifting.TokenShiftRequestViewV2.post (POST /api/v2/shifting/request/)
TokenShiftRequestViewV2_post(t, target_service, expires_in) ==
    /\ Idle /\ t \in issued /\ JWTAuthentication(t)
    /\ Len(shifts) < MaxShifts
    /\ IF ~TokenShiftRequestSerializer_is_valid(target_service, expires_in)
       THEN /\ resp' = [Response("request_shift", 400, t.user) EXCEPT
                           !.expires_in = expires_in, !.source = "api-gateway",
                           !.service = IF target_service = Omitted THEN ""
                                       ELSE target_service[1]]
            /\ UNCHANGED << shifts, issued, jti >>
       ELSE LET new_token == AccessToken(t.user, now, jti + 1) IN
            /\ shifts' = Append(shifts,
                   NewTokenShift(t.user, t, FALSE, new_token, "api-gateway",
                                 target_service[1],
                                 now + validated_expires_in(expires_in), now))
            /\ issued' = issued \cup {new_token}
            /\ jti' = jti + 1
            /\ resp' = [Response("request_shift", 200, t.user) EXCEPT
                           !.id = Len(shifts) + 1, !.token = new_token,
                           !.service = target_service[1],
                           !.expires_in = expires_in, !.source = "api-gateway"]
    /\ UNCHANGED << role, user_tenant, threads, now, ticks, users, sessions, tenancy >>

\* api_v2.views.TokenShiftRequestViewV2.post (the view api_v2/urls.py routes):
\* no serializer; target_service is checked against valid_services,
\* expires_in is never read, the credential is a simulated string that the
\* response does not carry.
TokenShiftRequestViewV2_simulated_post(t, target_service, expires_in) ==
    /\ Idle /\ t \in issued /\ JWTAuthentication(t)
    /\ Len(shifts) < MaxShifts
    /\ IF target_service = Omitted \/ target_service[1] \notin valid_services
       THEN /\ resp' = [Response("request_shift", 400, t.user) EXCEPT
                           !.expires_in = expires_in, !.source = "api-gateway",
                           !.service = IF target_service = Omitted THEN ""
                                       ELSE target_service[1]]
            /\ UNCHANGED << shifts, jti >>
       ELSE /\ shifts' = Append(shifts,
                   NewTokenShift(t.user, t, TRUE, SimulatedToken(jti + 1),
                                 "api-gateway", target_service[1],
                                 now + SHIFT_TTL_DEFAULT, now))
            /\ jti' = jti + 1
            /\ resp' = [Response("request_shift", 200, t.user) EXCEPT
                           !.id = Len(shifts) + 1,
                           !.service = target_service[1],
                           !.expires_in = expires_in, !.source = "api-gateway"]
    /\ UNCHANGED << role, user_tenant, threads, now, ticks, users, sessions, issued, tenancy >>

\* order_by('-shifted_at') over a set of ids; equal keys in primary-key order.
RECURSIVE order_by_shifted_at(_, _)
order_by_shifted_at(sh, S) ==
    IF S = {} THEN << >>
    ELSE LET m == CHOOSE i \in S : \A j \in S :
                    \/ sh[i].shifted_at > sh[j].shifted_at
                    \/ sh[i].shifted_at = sh[j].shifted_at /\ i <= j
         IN << m >> \o order_by_shifted_at(sh, S \ {m})

\* TokenShiftHistoryView.get_queryset, TokenShiftHistoryViewV2.get_queryset:
\* TokenShift.objects.filter(user=request.user).order_by('-shifted_at')
TokenShiftHistoryView_get_queryset(sh, u) ==
    order_by_shifted_at(sh, {i \in DOMAIN sh : sh[i].user = u})

\* TokenShift.is_expired: timezone.now() > self.expires_at
TokenShift_is_expired(shift, t) == t > shift.expires_at

\* GET /shifting/token-shift/history/ and /api/v2/shifting/history/: each row
\* carries is_expired (TokenShiftSerializer.get_is_expired, shift.is_expired()).
TokenShiftHistoryView_get(t) ==
    /\ Idle /\ t \in issued /\ JWTAuthentication(t)
    /\ LET rows == TokenShiftHistoryView_get_queryset(shifts, t.user) IN
       resp' = [Response("history", 200, t.user) EXCEPT
                   !.ids = rows,
                   !.is_expired = [k \in 1..Len(rows) |->
                                      TokenShift_is_expired(shifts[rows[k]], now)]]
    /\ UNCHANGED << role, user_tenant, threads, now, ticks, users, sessions, shifts, issued, jti, tenancy >>

\* The lookup without user=request.user.
MutGetAnyOwner(sh, shift_id, u) ==
    /\ shift_id \in DOMAIN sh
    /\ sh[shift_id].is_active

\* The lookup without is_active=True.
MutGetAnyState(sh, shift_id, u) ==
    /\ shift_id \in DOMAIN sh
    /\ sh[shift_id].user = u

\* TokenShift.objects.get(id=shift_id, user=request.user, is_active=True):
\* TRUE when the row exists, FALSE for DoesNotExist.
RevokeTokenShiftView_get(sh, shift_id, u) ==
    /\ shift_id \in DOMAIN sh
    /\ sh[shift_id].user = u
    /\ sh[shift_id].is_active

\* shifting.views.RevokeTokenShiftView.post
RevokeTokenShiftView_post(t, shift_id) ==
    /\ Idle /\ t \in issued /\ JWTAuthentication(t)
    /\ IF RevokeTokenShiftView_get(shifts, shift_id, t.user)
       THEN /\ shifts' = [shifts EXCEPT ![shift_id].is_active = FALSE]
            /\ resp' = [Response("revoke_shift", 200, t.user) EXCEPT
                           !.id = shift_id]
       ELSE /\ shifts' = shifts
            /\ resp' = [Response("revoke_shift", 404, t.user) EXCEPT
                           !.id = shift_id]
    /\ UNCHANGED << role, user_tenant, threads, now, ticks, users, sessions, issued, jti, tenancy >>

\* api_v2.views_shifting.RevokeTokenShiftViewV2.post: the success response
\* also carries token_preview, the two ends of the shifted credential.
RevokeTokenShiftViewV2_post(t, shift_id) ==
    /\ Idle /\ t \in issued /\ JWTAuthentication(t)
    /\ IF RevokeTokenShiftView_get(shifts, shift_id, t.user)
       THEN /\ shifts' = [shifts EXCEPT ![shift_id].is_active = FALSE]
            /\ resp' = [Response("revoke_shift", 200, t.user) EXCEPT
                           !.id = shift_id, !.detail = TRUE]
       ELSE /\ shifts' = shifts
            /\ resp' = [Response("revoke_shift", 404, t.user) EXCEPT
                           !.id = shift_id]
    /\ UNCHANGED << role, user_tenant, threads, now, ticks, users, sessions, issued, jti, tenancy >>

\* TokenValidationSerializer.validate, as a status: AccessToken(token) raises
\* TokenError for a string that is no access token or has expired (400); a
\* service claim other than the expected one, 'default' when the token has
\* none, is rejected (400); the expiry check that follows compares the naive
\* datetime.fromtimestamp(exp) with the aware timezone.now() (USE_TZ = True)
\* and raises TypeError (500).
TokenValidationSerializer_validate(token, service, t) ==
    IF token.kind # "access" \/ ~(token.exp > t) THEN 400
    ELSE IF (IF token.service = "" THEN "default" ELSE token.service) # service
         THEN 400
         ELSE 500

\* A downstream service validating a credential presented to it.
validate_incoming(token, service) ==
    /\ Idle /\ token \in issued
    /\ resp' = [Response("validate",
                         TokenValidationSerializer_validate(token, service, now),
                         "") EXCEPT
                   !.token = token, !.service = service]
    /\ UNCHANGED << role, user_tenant, threads, now, ticks, users, sessions, shifts, issued, jti, tenancy >>

\* ---- shipments of the shifting app ----------------------------------------
\* Shipment.objects.create(tenant=request.user, ...): status defaults to
\* 'pending', created_at is auto_now_add.
NewShipment(u, t) == [tenant |-> u, status |-> "pending", created_at |-> t]

\* order_by('-created_at') over a set of ids; equal keys in primary-key order.
RECURSIVE order_by_created_at(_, _)
order_by_created_at(rows, S) ==
    IF S = {} THEN << >>
    ELSE LET m == CHOOSE i \in S : \A j \in S :
                    \/ rows[i].created_at > rows[j].created_at
                    \/ rows[i].created_at = rows[j].created_at /\ i <= j
         IN << m >> \o order_by_created_at(rows, S \ {m})

\* api_v2.views.ShipmentCreateViewV2.post: 400 when a required field is
\* missing, otherwise a shipment of request.user is created.
ShipmentCreateViewV2_post(t, complete) ==
    /\ Idle /\ t \in issued /\ JWTAuthentication(t)
    /\ Len(shipments) < MaxShipments
    /\ IF ~complete
       THEN /\ resp' = Response("shipment_create", 400, t.user)
            /\ UNCHANGED shipments
       ELSE /\ shipments' = Append(shipments, NewShipment(t.user, now))
            /\ resp' = [Response("shipment_create", 201, t.user) EXCEPT
                           !.id = Len(shipments) + 1]
    /\ UNCHANGED << role, user_tenant, threads, now, ticks, users, sessions, shifts, issued, jti,
                    routed, tenant_id, tenant_shipments >>

\* shifting.views.ShipmentListView.get_queryset without query parameters:
\* Shipment.objects.filter(tenant=user).order_by('-created_at')
ShipmentListView_get_queryset(rows, u) ==
    order_by_created_at(rows, {i \in DOMAIN rows : rows[i].tenant = u})

\* GET /shifting/shipments/
ShipmentListView_get(t) ==
    /\ Idle /\ t \in issued /\ JWTAuthentication(t)
    /\ resp' = [Response("shipment_list", 200, t.user) EXCEPT
                   !.ids = ShipmentListView_get_queryset(shipments, t.user)]
    /\ UNCHANGED << role, user_tenant, threads, now, ticks, users, sessions, shifts, issued, jti, tenancy >>

\* shifting.views.ShipmentCancelView.post: get(shipment_id=, tenant=user) or
\* 404; a delivered or cancelled shipment is refused (400); else cancelled.
ShipmentCancelView_post(t, shipment_id) ==
    /\ Idle /\ t \in issued /\ JWTAuthentication(t)
    /\ IF ~(shipment_id \in DOMAIN shipments /\ shipments[shipment_id].tenant = t.user)
       THEN /\ resp' = [Response("shipment_cancel", 404, t.user) EXCEPT
                           !.id = shipment_id]
            /\ UNCHANGED shipments
       ELSE IF shipments[shipment_id].status \in {"delivered", "cancelled"}
       THEN /\ resp' = [Response("shipment_cancel", 400, t.user) EXCEPT
                           !.id = shipment_id]
            /\ UNCHANGED shipments
       ELSE /\ shipments' = [shipments EXCEPT ![shipment_id].status = "cancelled"]
            /\ resp' = [Response("shipment_cancel", 200, t.user) EXCEPT
                           !.id = shipment_id]
    /\ UNCHANGED << role, user_tenant, threads, now, ticks, users, sessions, shifts, issued, jti,
                    routed, tenant_id, tenant_shipments >>

\* shifting.views.TrackingView.get: get(tracking_number=, tenant=user) or 404
\* (a shipment's tracking number stands one to one for its id).
TrackingView_get(t, tracking_number) ==
    /\ Idle /\ t \in issued /\ JWTAuthentication(t)
    /\ IF /\ tracking_number \in DOMAIN shipments
          /\ shipments[tracking_number].tenant = t.user
       THEN resp' = [Response("shipment_track", 200, t.user) EXCEPT
                        !.id = tracking_number]
       ELSE resp' = [Response("shipment_track", 404, t.user) EXCEPT
                        !.id = tracking_number]
    /\ UNCHANGED << role, user_tenant, threads, now, ticks, users, sessions, shifts, issued, jti, tenancy >>

\* What a client puts into status when patching a shipment.
ShipmentStatusInputs ==
    {Omitted, Given("pending"), Given("delivered"), Given("bogus")}

\* api_v2.views.ShipmentUpdateViewV2.patch: get(shipment_id=, tenant=user) or
\* 404; 400 without an allowed field or with a status outside valid_statuses;
\* otherwise every field sent, status included, is set on the row.
ShipmentUpdateViewV2_patch(t, shipment_id, status_input, description) ==
    /\ Idle /\ t \in issued /\ JWTAuthentication(t)
    /\ IF ~(shipment_id \in DOMAIN shipments /\ shipments[shipment_id].tenant = t.user)
       THEN /\ resp' = [Response("shipment_patch", 404, t.user) EXCEPT
                           !.id = shipment_id]
            /\ UNCHANGED shipments
       ELSE IF \/ status_input = Omitted /\ ~description
               \/ status_input # Omitted /\
                    status_input[1] \notin {"pending", "in_transit", "delivered",
                                            "cancelled"}
       THEN /\ resp' = [Response("shipment_patch", 400, t.user) EXCEPT
                           !.id = shipment_id]
            /\ UNCHANGED shipments
       ELSE /\ shipments' = IF status_input = Omitted THEN shipments
                            ELSE [shipments EXCEPT
                                     ![shipment_id].status = status_input[1]]
            /\ resp' = [Response("shipment_patch", 200, t.user) EXCEPT
                           !.id = shipment_id]
    /\ UNCHANGED << role, user_tenant, threads, now, ticks, users, sessions, shifts,
                    issued, jti, routed, tenant_id, tenant_shipments >>

\* shifting.views.ShipmentDetailView.destroy: get_object() or 404; the status
\* becomes 'cancelled' whatever it was.
ShipmentDetailView_destroy(t, shipment_id) ==
    /\ Idle /\ t \in issued /\ JWTAuthentication(t)
    /\ IF ~(shipment_id \in DOMAIN shipments /\ shipments[shipment_id].tenant = t.user)
       THEN /\ resp' = [Response("shipment_destroy", 404, t.user) EXCEPT
                           !.id = shipment_id]
            /\ UNCHANGED shipments
       ELSE /\ shipments' = [shipments EXCEPT ![shipment_id].status = "cancelled"]
            /\ resp' = [Response("shipment_destroy", 200, t.user) EXCEPT
                           !.id = shipment_id]
    /\ UNCHANGED << role, user_tenant, threads, now, ticks, users, sessions, shifts,
                    issued, jti, routed, tenant_id, tenant_shipments >>

\* shifting.views.TrackingEventListView.create: get_object_or_404 on the
\* shipment of the user; TrackingEventSerializer names the field 'metadata',
\* which TrackingEvent does not have, so is_valid() raises
\* ImproperlyConfigured (500) before the shipment is touched.
TrackingEventListView_create(t, shipment_id) ==
    /\ Idle /\ t \in issued /\ JWTAuthentication(t)
    /\ IF ~(shipment_id \in DOMAIN shipments /\ shipments[shipment_id].tenant = t.user)
       THEN resp' = [Response("shipment_event", 404, t.user) EXCEPT
                        !.id = shipment_id]
       ELSE resp' = [Response("shipment_event", 500, t.user) EXCEPT
                        !.id = shipment_id]
    /\ UNCHANGED << role, user_tenant, threads, now, ticks, users, sessions, shifts,
                    issued, jti, tenancy >>

\* ---- the multi-tenant variant (multi-tenant-microservice) ------------------
\* The databases of the variant.
DATABASES == {"default", "tenant_1", "tenant_2"}

\* Who sends a request: nobody authenticated, or a user whose token carries
\* no tenant_id claim, tenant_id 1 or tenant_id 2.
Auths == {"anonymous", "None", "1", "2"}

\* Values of status sent to update_status.
StatusInputs == {"delivered", "bogus"}

\* Shipment.SHIPMENT_STATUS
SHIPMENT_STATUS == {"pending", "in_transit", "delivered", "cancelled"}

\* Labels of the apps whose models are queried; operations on them.
AppLabels ==
    {"admin", "auth", "contenttypes", "sessions", "authtoken",
     "users_service", "shipping_service", "corsheaders"}
Operations == {"read", "write"}

\* TenantMiddleware.__call__: the tenant_id claim of the token, None when the
\* request is not authenticated or the token has no such claim.
TenantMiddleware_call(auth) == IF auth = "anonymous" THEN "None" ELSE auth

\* A router that sends all shipping data to the first tenant's database.
MutRouteIgnoresTenant(app_label, conn_tenant_id) ==
    IF app_label = "shipping_service" THEN "tenant_1" ELSE "default"

\* TenantRouter.db_for_read; conn_tenant_id is connections['default'].tenant_id,
\* "unset" when the attribute is missing.
TenantRouter_db_for_read(app_label, conn_tenant_id) ==
    IF app_label \in {"admin", "auth", "contenttypes", "sessions", "authtoken"}
    THEN "default"
    ELSE IF app_label = "users_service" THEN "default"
    ELSE IF app_label = "shipping_service"
         THEN "tenant_" \o (IF conn_tenant_id = "unset" THEN "1" ELSE conn_tenant_id)
         ELSE "default"

\* TenantRouter.db_for_write
TenantRouter_db_for_write(app_label, conn_tenant_id) ==
    TenantRouter_db_for_read(app_label, conn_tenant_id)

\* The database a query on a shipping_service model goes to.
using(conn_tenant_id) ==
    IF routed THEN TenantRouter_db_for_read("shipping_service", conn_tenant_id)
    ELSE "default"

\* BaseShipmentViewSet.get_queryset without query parameters: the rows of the
\* request's tenant, every row when request.tenant_id is None.
BaseShipmentViewSet_get_queryset(rows, request_tenant_id) ==
    IF request_tenant_id # "None"
    THEN {pk \in DOMAIN rows : rows[pk].tenant_id = request_tenant_id}
    ELSE DOMAIN rows

\* A request whose view reads or writes a model of app_label, after the
\* middleware has set the tenant of the request.
TenantRequest_query(auth, app_label, operation) ==
    /\ Idle /\ routed
    /\ tenant_id' = TenantMiddleware_call(auth)
    /\ resp' = [Response("route", 200, "") EXCEPT
                   !.service = app_label, !.source = operation,
                   !.tenant = TenantMiddleware_call(auth),
                   !.db = IF operation = "read"
                          THEN TenantRouter_db_for_read(app_label,
                                    TenantMiddleware_call(auth))
                          ELSE TenantRouter_db_for_write(app_label,
                                    TenantMiddleware_call(auth))]
    /\ UNCHANGED << role, user_tenant, threads, now, ticks, users, sessions, shifts, issued, jti,
                    shipments, routed, tenant_shipments >>

\* ShipmentViewSetV2.create: ShipmentSerializerV2.create puts request.tenant_id
\* into the row; tenant_id is NOT NULL and shipment_number, which no
\* serializer writes, is unique, so the insert fails without a tenant and
\* for a second row of a database.
ShipmentViewSetV2_create(auth) ==
    /\ Idle
    /\ tenant_id' = TenantMiddleware_call(auth)
    /\ LET ctx == TenantMiddleware_call(auth)
           db == using(ctx)
       IN IF auth = "anonymous"
          THEN /\ resp' = [Response("tenant_create", 401, "") EXCEPT !.tenant = ctx]
               /\ UNCHANGED tenant_shipments
          ELSE IF db \notin DATABASES \/ ctx = "None" \/ tenant_shipments[db] # << >>
          THEN /\ resp' = [Response("tenant_create", 500, "") EXCEPT
                              !.tenant = ctx, !.db = db]
               /\ UNCHANGED tenant_shipments
          ELSE /\ tenant_shipments' = [tenant_shipments EXCEPT ![db] =
                      Append(@, [tenant_id |-> ctx, status |-> "pending",
                                 created_at |-> now])]
               /\ resp' = [Response("tenant_create", 201, "") EXCEPT
                              !.tenant = ctx, !.db = db,
                              !.id = Len(tenant_shipments[db]) + 1]
    /\ UNCHANGED << role, user_tenant, threads, now, ticks, users, sessions, shifts, issued, jti,
                    shipments, routed >>

\* BaseShipmentViewSet.list (Meta.ordering = ['-created_at'])
BaseShipmentViewSet_list(auth) ==
    /\ Idle
    /\ tenant_id' = TenantMiddleware_call(auth)
    /\ LET ctx == TenantMiddleware_call(auth)
           db == using(ctx)
       IN IF auth = "anonymous"
          THEN resp' = [Response("tenant_list", 401, "") EXCEPT !.tenant = ctx]
          ELSE IF db \notin DATABASES
          THEN resp' = [Response("tenant_list", 500, "") EXCEPT
                           !.tenant = ctx, !.db = db]
          ELSE resp' = [Response("tenant_list", 200, "") EXCEPT
                           !.tenant = ctx, !.db = db,
                           !.ids = order_by_created_at(tenant_shipments[db],
                                      BaseShipmentViewSet_get_queryset(
                                          tenant_shipments[db], ctx))]
    /\ UNCHANGED << role, user_tenant, threads, now, ticks, users, sessions, shifts, issued, jti,
                    shipments, routed, tenant_shipments >>

\* BaseShipmentViewSet.retrieve: get_object() over get_queryset(), 404 when
\* the pk is not in it.
BaseShipmentViewSet_retrieve(auth, pk) ==
    /\ Idle
    /\ tenant_id' = TenantMiddleware_call(auth)
    /\ LET ctx == TenantMiddleware_call(auth)
           db == using(ctx)
       IN IF auth = "anonymous"
          THEN resp' = [Response("tenant_retrieve", 401, "") EXCEPT
                           !.tenant = ctx, !.id = pk]
          ELSE IF db \notin DATABASES
          THEN resp' = [Response("tenant_retrieve", 500, "") EXCEPT
                           !.tenant = ctx, !.db = db, !.id = pk]
          ELSE IF pk \notin BaseShipmentViewSet_get_queryset(tenant_shipments[db], ctx)
          THEN resp' = [Response("tenant_retrieve", 404, "") EXCEPT
                           !.tenant = ctx, !.db = db, !.id = pk]
          ELSE resp' = [Response("tenant_retrieve", 200, "") EXCEPT
                           !.tenant = ctx, !.db = db, !.id = pk]
    /\ UNCHANGED << role, user_tenant, threads, now, ticks, users, sessions, shifts, issued, jti,
                    shipments, routed, tenant_shipments >>

\* ShipmentViewSetV1.update_status: get_object() or 404; a status of
\* SHIPMENT_STATUS is saved, any other is refused (400).
ShipmentViewSetV1_update_status(auth, pk, new_status) ==
    /\ Idle
    /\ tenant_id' = TenantMiddleware_call(auth)
    /\ LET ctx == TenantMiddleware_call(auth)
           db == using(ctx)
       IN IF auth = "anonymous"
          THEN /\ resp' = [Response("tenant_update_status", 401, "") EXCEPT
                              !.tenant = ctx, !.id = pk]
               /\ UNCHANGED tenant_shipments
          ELSE IF db \notin DATABASES
          THEN /\ resp' = [Response("tenant_update_status", 500, "") EXCEPT
                              !.tenant = ctx, !.db = db, !.id = pk]
               /\ UNCHANGED tenant_shipments
          ELSE IF pk \notin BaseShipmentViewSet_get_queryset(tenant_shipments[db], ctx)
          THEN /\ resp' = [Response("tenant_update_status", 404, "") EXCEPT
                              !.tenant = ctx, !.db = db, !.id = pk]
               /\ UNCHANGED tenant_shipments
          ELSE IF new_status \notin SHIPMENT_STATUS
          THEN /\ resp' = [Response("tenant_update_status", 400, "") EXCEPT
                              !.tenant = ctx, !.db = db, !.id = pk]
               /\ UNCHANGED tenant_shipments
          ELSE /\ tenant_shipments' =
                      [tenant_shipments EXCEPT ![db][pk].status = new_status]
               /\ resp' = [Response("tenant_update_status", 200, "") EXCEPT
                              !.tenant = ctx, !.db = db, !.id = pk]
    /\ UNCHANGED << role, user_tenant, threads, now, ticks, users, sessions, shifts, issued, jti,
                    shipments, routed >>

\* TenantRouter.allow_migrate as "True", "False" or "None" (no opinion).
TenantRouter_allow_migrate(db, app_label) ==
    IF app_label \in {"admin", "auth", "contenttypes", "sessions", "authtoken"}
    THEN (IF db = "default" THEN "True" ELSE "False")
    ELSE IF app_label = "users_service"
    THEN (IF db = "default" THEN "True" ELSE "False")
    ELSE IF app_label = "shipping_service"
    THEN (IF db \in {"tenant_1", "tenant_2"} THEN "True" ELSE "False")
    ELSE "None"

\* ---- the router of the main project --------------------------------------
\* settings.DATABASES
MainDatabases == {"default", "users_db", "shifting_db", "analytics_db"}

\* Labels of the apps of the main project whose models are queried.
MainAppLabels ==
    {"users", "shifting", "analytics", "admin", "auth", "contenttypes",
     "sessions", "notifications"}

\* DatabaseRouter.db_for_read
DatabaseRouter_db_for_read(app_label) ==
    IF app_label = "users" THEN "users_db"
    ELSE IF app_label = "shifting" THEN "shifting_db"
    ELSE IF app_label = "analytics" THEN "analytics_db"
    ELSE "default"

\* DatabaseRouter.db_for_write
DatabaseRouter_db_for_write(app_label) ==
    IF app_label = "users" THEN "users_db"
    ELSE IF app_label = "shifting" THEN "shifting_db"
    ELSE IF app_label = "analytics" THEN "analytics_db"
    ELSE "default"

\* DatabaseRouter.allow_migrate as "True", "False" or "None" (no opinion).
DatabaseRouter_allow_migrate(db, app_label) ==
    IF app_label = "users" THEN (IF db = "users_db" THEN "True" ELSE "False")
    ELSE IF app_label = "shifting"
    THEN (IF db = "shifting_db" THEN "True" ELSE "False")
    ELSE IF app_label = "analytics"
    THEN (IF db = "analytics_db" THEN "True" ELSE "False")
    ELSE IF app_label \in {"admin", "auth", "contenttypes", "sessions"}
    THEN (IF db = "default" THEN "True" ELSE "False")
    ELSE "None"

\* A request of the main project whose view reads or writes a model of
\* app_label.
DatabaseRouter_query(app_label, operation) ==
    /\ Idle
    /\ resp' = [Response("route_main", 200, "") EXCEPT
                   !.service = app_label, !.source = operation,
                   !.db = IF operation = "read"
                          THEN DatabaseRouter_db_for_read(app_label)
                          ELSE DatabaseRouter_db_for_write(app_label)]
    /\ UNCHANGED << role, user_tenant, threads, now, ticks, users, sessions, shifts,
                    issued, jti, tenancy >>

\* ---- users of the multi-tenant variant ------------------------------------
\* The users and the tenants of the variant.  Accounts that can log in are
\* made outside the API (createsuperuser, the admin site): UserSerializer
\* never stores a password.
Members == {"carol", "dave", "root"}
Tenants == {"1", "2"}

\* is_staff
Staff == {"root"}

\* The users table after setup: a member of each tenant and the superuser,
\* who has no tenant.
MembersAtSetup == [m \in Members |->
    IF m = "carol" THEN "1" ELSE IF m = "dave" THEN "2" ELSE "None"]

\* What a client puts into tenant_id: nothing, a tenant, or the id of no
\* tenant.
TenantIdInputs == {Omitted, Given("1"), Given("2"), Given("9")}

\* UserViewSet.get_queryset: every user for staff, else the users of the
\* principal's tenant.
UserViewSet_get_queryset(m) ==
    IF m \in Staff THEN Members
    ELSE {x \in Members : user_tenant[x] = user_tenant[m]}

\* UserViewSet.partial_update (PATCH /users/<pk>/) by member m with only
\* tenant_id in the body: get_object() over get_queryset() or 404;
\* UserSerializer declares tenant_id writable and ModelSerializer.update
\* sets it on the row; the id of no tenant violates the foreign key (500).
UserViewSet_partial_update(m, pk, tenant_id_input) ==
    /\ Idle
    /\ IF pk \notin UserViewSet_get_queryset(m)
       THEN /\ resp' = [Response("user_update", 404, "") EXCEPT
                           !.member = m, !.target = pk]
            /\ UNCHANGED user_tenant
       ELSE IF tenant_id_input = Omitted
       THEN /\ resp' = [Response("user_update", 200, "") EXCEPT
                           !.member = m, !.target = pk]
            /\ UNCHANGED user_tenant
       ELSE IF tenant_id_input[1] \notin Tenants
       THEN /\ resp' = [Response("user_update", 500, "") EXCEPT
                           !.member = m, !.target = pk]
            /\ UNCHANGED user_tenant
       ELSE /\ user_tenant' = [user_tenant EXCEPT ![pk] = tenant_id_input[1]]
            /\ resp' = [Response("user_update", 200, "") EXCEPT
                           !.member = m, !.target = pk,
                           !.tenant = tenant_id_input[1]]
    /\ UNCHANGED << role, threads, now, ticks, users, sessions, shifts, issued, jti,
                    tenancy >>

\* UserViewSet.me (GET /users/me/)
UserViewSet_me(m) ==
    /\ Idle
    /\ resp' = [Response("user_me", 200, "") EXCEPT
                   !.member = m, !.target = m, !.tenant = user_tenant[m]]
    /\ UNCHANGED << role, user_tenant, threads, now, ticks, users, sessions, shifts,
                    issued, jti, tenancy >>

\* ---- requests handled concurrently ----------------------------------------
\* The development server and every WSGI server handle requests on several
\* threads; no view of these runs in a transaction (ATOMIC_REQUESTS is unset,
\* the views carry no transaction.atomic), so every ORM statement commits on
\* its own and the statements of two requests interleave.
Workers == {1, 2}

\* A thread: op and pc, the request it handles and how far it got; user,
\* token, id, new_password: the request; ids: the sessions of the user that
\* were active when the request arrived; status: the HTTP status of the
\* answer; conn: the tenant_id attribute of the thread's connection objects;
\* tenant: the tenant_id claim of the request's credential; app, db: the app
\* label of the model the request queried and the database the query went to.
NoCall ==
    [op |-> "none", pc |-> "idle", user |-> "", token |-> NoToken, id |-> 0,
     new_password |-> "", ids |-> {}, status |-> 0, conn |-> "unset",
     tenant |-> "", app |-> "", db |-> ""]

\* The thread takes the next request: its local variables are new, its
\* connection objects are those it had.
Call(w, op, pc, user) ==
    [NoCall EXCEPT !.op = op, !.pc = pc, !.user = user, !.conn = threads[w].conn]

\* The answer has been sent.
Return(w) ==
    /\ threads[w].pc = "done"
    /\ threads' = [threads EXCEPT ![w] = [NoCall EXCEPT !.conn = threads[w].conn]]
    /\ UNCHANGED << role, user_tenant, now, ticks, users, sessions, shifts, issued, jti, resp, tenancy >>

\* api_v2.views.ChangePasswordViewV2.post up to user.save(): the three checks
\* answer 400; otherwise the new password is saved.
ChangePasswordViewV2_post_save(w, t, old_password, new_password) ==
    /\ threads[w].pc = "idle" /\ t \in issued /\ JWTAuthentication(t)
    /\ LET call == [Call(w, "change_password", "saved", t.user) EXCEPT
                       !.token = t,
                       !.ids = {i \in DOMAIN sessions :
                                   sessions[i].user = t.user /\ sessions[i].is_active}]
       IN IF \/ old_password = Omitted \/ new_password = Omitted
             \/ users[t.user].password # old_password[1]
             \/ old_password = new_password
          THEN /\ threads' = [threads EXCEPT ![w] =
                                 [call EXCEPT !.pc = "done", !.status = 400]]
               /\ UNCHANGED users
          ELSE /\ users' = [users EXCEPT ![t.user].password = new_password[1]]
               /\ threads' = [threads EXCEPT ![w] =
                                 [call EXCEPT !.new_password = new_password[1]]]
    /\ UNCHANGED << role, user_tenant, now, ticks, sessions, shifts, issued, jti, resp, tenancy >>

\* ... the statement after user.save():
\* UserSession.objects.filter(user=user, is_active=True).update(...), then 200.
ChangePasswordViewV2_post_update(w) ==
    /\ threads[w].op = "change_password" /\ threads[w].pc = "saved"
    /\ sessions' = close_all_sessions(sessions, threads[w].user, now)
    /\ threads' = [threads EXCEPT ![w].pc = "done", ![w].status = 200]
    /\ UNCHANGED << role, user_tenant, now, ticks, users, shifts, issued, jti, resp, tenancy >>

\* ... or that statement raises (sqlite3 answers 'database is locked' to a
\* writer that waits too long): the view catches nothing, the answer is 500
\* and the saved password stays.
ChangePasswordViewV2_post_raise(w) ==
    /\ threads[w].op = "change_password" /\ threads[w].pc = "saved"
    /\ threads' = [threads EXCEPT ![w].pc = "done", ![w].status = 500]
    /\ UNCHANGED << role, user_tenant, now, ticks, users, sessions, shifts, issued, jti, resp, tenancy >>

\* The logins that have minted their session key and not yet written the row.
LoginsInFlight == {w \in Workers : threads[w].pc \in {"get", "upsert"}}

\* api_v2.views.UserLoginViewV2.post up to the session key: 400 and 401 as in
\* the whole handler; otherwise RefreshToken.for_user(user) and the first read
\* of refresh.access_token.
UserLoginViewV2_post_authenticate(w, username, password) ==
    /\ threads[w].pc = "idle"
    /\ Len(sessions) + Cardinality(LoginsInFlight) < MaxSessions
    /\ IF username = Omitted \/ password = Omitted
       THEN /\ threads' = [threads EXCEPT ![w] =
                   [Call(w, "login", "done", "") EXCEPT !.status = 400]]
            /\ UNCHANGED jti
       ELSE IF ~check_password(username, password)
       THEN /\ threads' = [threads EXCEPT ![w] =
                   [Call(w, "login", "done", "") EXCEPT !.status = 401]]
            /\ UNCHANGED jti
       ELSE /\ threads' = [threads EXCEPT ![w] =
                   [Call(w, "login", "get", username[1]) EXCEPT
                       !.token = AccessToken(username[1], now, jti + 2)]]
            /\ jti' = jti + 2
    /\ UNCHANGED << role, user_tenant, now, ticks, users, sessions, shifts, issued, resp, tenancy >>

\* ... update_or_create, its lookup: the id of the row with the key, 0 for
\* DoesNotExist.
UserLoginViewV2_post_get(w) ==
    /\ threads[w].op = "login" /\ threads[w].pc = "get"
    /\ threads' = [threads EXCEPT ![w].pc = "upsert", ![w].id =
           IF \E i \in DOMAIN sessions :
                 /\ sessions[i].user = threads[w].user
                 /\ sessions[i].session_token = threads[w].token
           THEN CHOOSE i \in DOMAIN sessions :
                   /\ sessions[i].user = threads[w].user
                   /\ sessions[i].session_token = threads[w].token
           ELSE 0]
    /\ UNCHANGED << role, user_tenant, now, ticks, users, sessions, shifts, issued, jti, resp, tenancy >>

\* ... update_or_create, its write: the row found gets the defaults, or a row
\* is inserted; the answer carries the refresh token and another read of
\* refresh.access_token.
UserLoginViewV2_post_upsert(w) ==
    /\ threads[w].op = "login" /\ threads[w].pc = "upsert"
    /\ LET u == threads[w].user
           found == threads[w].id
       IN /\ IF found # 0
             THEN sessions' = [sessions EXCEPT ![found] =
                      [@ EXCEPT !.expires_at = now + SESSION_TTL, !.is_active = TRUE,
                                !.last_activity = now]]
             ELSE sessions' = Append(sessions, NewSession(u, threads[w].token, now))
          /\ issued' = issued \cup {RefreshToken(u, now, threads[w].token.jti - 1),
                                    AccessToken(u, now, jti + 1)}
          /\ jti' = jti + 1
          /\ threads' = [threads EXCEPT ![w].pc = "done", ![w].status = 200,
                                        ![w].id = IF found # 0 THEN found
                                                  ELSE Len(sessions) + 1]
    /\ UNCHANGED << role, user_tenant, now, ticks, users, shifts, resp, tenancy >>

\* shifting.views.RevokeTokenShiftView.post and
\* api_v2.views_shifting.RevokeTokenShiftViewV2.post up to the lookup:
\* TokenShift.objects.get(id=, user=, is_active=True), 404 for DoesNotExist.
RevokeTokenShiftView_post_get(w, t, shift_id) ==
    /\ threads[w].pc = "idle" /\ t \in issued /\ JWTAuthentication(t)
    /\ IF RevokeTokenShiftView_get(shifts, shift_id, t.user)
       THEN threads' = [threads EXCEPT ![w] =
                [Call(w, "revoke_shift", "save", t.user) EXCEPT
                    !.token = t, !.id = shift_id]]
       ELSE threads' = [threads EXCEPT ![w] =
                [Call(w, "revoke_shift", "done", t.user) EXCEPT
                    !.token = t, !.id = shift_id, !.status = 404]]
    /\ UNCHANGED << role, user_tenant, now, ticks, users, sessions, shifts, issued, jti, resp, tenancy >>

\* ... token_shift.is_active = False; token_shift.save(); then 200.
RevokeTokenShiftView_post_save(w) ==
    /\ threads[w].op = "revoke_shift" /\ threads[w].pc = "save"
    /\ shifts' = [shifts EXCEPT ![threads[w].id].is_active = FALSE]
    /\ threads' = [threads EXCEPT ![w].pc = "done", ![w].status = 200]
    /\ UNCHANGED << role, user_tenant, now, ticks, users, sessions, issued, jti, resp, tenancy >>

\* django.db.connections holds one connection object per alias and thread, so
\* the attribute a thread's middleware set is the one its router reads.
MutConnectionOfFirstThread(w) == threads[1].conn

\* getattr(connections['default'], 'tenant_id', ...) evaluated on thread w.
connections_tenant_id(w) == threads[w].conn

\* TenantMiddleware.__call__ up to self.get_response(request): tenant_id is
\* set on the thread's connections and on the request.
TenantMiddleware_call_set(w, auth) ==
    /\ threads[w].pc = "idle" /\ routed
    /\ threads' = [threads EXCEPT ![w] =
           [Call(w, "tenant_query", "view", "") EXCEPT
               !.conn = TenantMiddleware_call(auth),
               !.tenant = TenantMiddleware_call(auth)]]
    /\ UNCHANGED << role, user_tenant, now, ticks, users, sessions, shifts, issued, jti, resp, tenancy >>

\* ... the view's query on a model of app_label: the router names the
\* database from the tenant_id of the thread's connection.
TenantMiddleware_call_get_response(w, app_label, operation) ==
    /\ threads[w].op = "tenant_query" /\ threads[w].pc = "view"
    /\ threads' = [threads EXCEPT ![w].pc = "done", ![w].status = 200,
           ![w].app = app_label,
           ![w].db = IF operation = "read"
                     THEN TenantRouter_db_for_read(app_label, connections_tenant_id(w))
                     ELSE TenantRouter_db_for_write(app_label, connections_tenant_id(w))]
    /\ UNCHANGED << role, user_tenant, now, ticks, users, sessions, shifts, issued, jti, resp, tenancy >>

Init ==
    /\ now = 0
    /\ ticks = 0
    /\ users = [u \in Principals |-> [registered |-> FALSE, password |-> ""]]
    /\ sessions = << >>
    /\ shifts = << >>
    /\ issued = {}
    /\ jti = 0
    /\ resp = NoResponse
    /\ shipments = << >>
    /\ routed = TRUE
    /\ tenant_id = "unset"
    /\ tenant_shipments = [db \in DATABASES |-> << >>]
    /\ threads = [w \in Workers |-> NoCall]
    /\ role = [u \in Principals |-> ""]
    /\ user_tenant = MembersAtSetup

PasswordInputs == {Given(p) : p \in Passwords} \cup {Omitted}
UsernameInputs == {Given(u) : u \in Principals} \cup {Omitted}

\* The clock, a rejected credential, and registration of the principals U
\* with passwords from P.
Common(U, P) ==
    \/ \E d \in TickSteps : Tick(d)
    \/ SendResponse
    \/ \E t \in issued : Unauthorized(t)
    \/ \E u \in U, p, p2 \in P : UserRegistrationView_create(u, p, p2)

\* Login, in the users app (always an error) and in api_v2.
Logins ==
    \/ \E u \in UsernameInputs, p \in PasswordInputs : UserLoginView_post(u, p)
    \/ \E u \in UsernameInputs, p \in PasswordInputs : UserLoginViewV2_post(u, p)

\* The session listings.
SessionLists ==
    \/ \E t \in issued : UserSessionListView_get(t)
    \/ \E t \in issued : UserSessionListViewV2_get(t)

\* The endpoints that end sessions.
SessionEnds ==
    \/ \E t \in issued, i \in 1..(Len(sessions) + 1) : RevokeSessionView_post(t, i)
    \/ \E t \in issued, r \in RefreshInputs : UserLogoutView_post(t, r)
    \/ \E t \in issued, o \in PasswordInputs : ChangePasswordView_post(t, o)
    \/ \E t \in issued, o, n \in PasswordInputs : ChangePasswordViewV2_post(t, o, n)

\* The three shift request endpoints, target_service from G, expires_in from E.
ShiftRequests(G, E) ==
    \/ \E t \in issued, g \in G, e \in E : TokenShiftRequestView_post(t, g, e)
    \/ \E t \in issued, g \in G, e \in E : TokenShiftRequestViewV2_post(t, g, e)
    \/ \E t \in issued, g \in G, e \in E : TokenShiftRequestViewV2_simulated_post(t, g, e)

\* Shift history and revocation.
ShiftRecords ==
    \/ \E t \in issued : TokenShiftHistoryView_get(t)
    \/ \E t \in issued, i \in 1..(Len(shifts) + 1) : RevokeTokenShiftView_post(t, i)
    \/ \E t \in issued, i \in 1..(Len(shifts) + 1) : RevokeTokenShiftViewV2_post(t, i)

\* A downstream service checking a credential.
Validation == \E t \in issued, v \in ServiceInputs : validate_incoming(t, v)

\* The token refresh endpoint.
TokenRefresh == \E r \in issued : TokenRefreshView_post(r)

\* The shipment endpoints of the shifting app.
Shipments ==
    \/ \E t \in issued, c \in BOOLEAN : ShipmentCreateViewV2_post(t, c)
    \/ \E t \in issued : ShipmentListView_get(t)
    \/ \E t \in issued, i \in 1..(Len(shipments) + 1) : ShipmentCancelView_post(t, i)
    \/ \E t \in issued, i \in 1..(Len(shipments) + 1) : TrackingView_get(t, i)

\* The shipment endpoints of the multi-tenant variant.
TenantShipments ==
    \/ \E a \in Auths : ShipmentViewSetV2_create(a)
    \/ \E a \in Auths : BaseShipmentViewSet_list(a)
    \/ \E a \in Auths, pk \in 1..2 : BaseShipmentViewSet_retrieve(a, pk)
    \/ \E a \in Auths, pk \in 1..2, st \in StatusInputs :
            ShipmentViewSetV1_update_status(a, pk, st)

\* Requests of the multi-tenant variant querying the models of an app.
TenantQueries ==
    \E a \in Auths, l \in AppLabels, o \in Operations : TenantRequest_query(a, l, o)

\* Shift requests that name one allowed and one unknown target and leave
\* expires_in to its default.
FewTargets == {Given("shipping-service"), Given("bogus-service")}

\* The session endpoints, two principals (registering with one password,
\* changing it to the other).
NextSessions == Common(Principals, {"pw1"}) \/ Logins \/ SessionLists \/ SessionEnds

SpecSessions == Init /\ [][NextSessions]_vars

\* The token shifting endpoints, one principal, every target of TargetInputs
\* and every expires_in of ExpiresInputs.
NextShifts ==
    \/ Common({"alice"}, {"pw1"})
    \/ ShiftRequests(TargetInputs, ExpiresInputs)
    \/ ShiftRecords
    \/ Validation

SpecShifts == Init /\ [][NextShifts]_vars

\* Two principals reading and revoking records: the listings of sessions and
\* shifts, shift requests and shift revocation.
NextIsolation ==
    \/ Common(Principals, {"pw1"})
    \/ SessionLists
    \/ ShiftRequests(FewTargets, {Omitted})
    \/ ShiftRecords

SpecIsolation == Init /\ [][NextIsolation]_vars

\* One principal ending sessions and revoking shifts.
NextRevocation ==
    \/ Common({"alice"}, {"pw1"})
    \/ SessionEnds
    \/ ShiftRequests(FewTargets, {Omitted})
    \/ ShiftRecords

SpecRevocation == Init /\ [][NextRevocation]_vars

\* Two principals ending sessions.
NextSessionEnds == Common(Principals, {"pw1"}) \/ SessionEnds

SpecSessionEnds == Init /\ [][NextSessionEnds]_vars

\* The multi-tenant variant with its router installed.
NextTenancy == SendResponse \/ TenantShipments \/ TenantQueries

SpecTenancy == Init /\ [][NextTenancy]_vars

\* The multi-tenant variant deployed with or without TenantRouter in
\* DATABASE_ROUTERS.
InitShipments ==
    /\ now = 0 /\ ticks = 0 /\ jti = 0
    /\ users = [u \in Principals |-> [registered |-> FALSE, password |-> ""]]
    /\ sessions = << >> /\ shifts = << >> /\ issued = {}
    /\ resp = NoResponse
    /\ shipments = << >>
    /\ routed \in BOOLEAN
    /\ tenant_id = "unset"
    /\ tenant_shipments = [db \in DATABASES |-> << >>]
    /\ threads = [w \in Workers |-> NoCall]
    /\ role = [u \in Principals |-> ""]
    /\ user_tenant = MembersAtSetup

\* Two principals and the tenants of the variant using the shipment endpoints.
NextShipments ==
    \/ SendResponse
    \/ \E u \in Principals : UserRegistrationView_create(u, "pw1", "pw1")
    \/ Shipments
    \/ TenantShipments

SpecShipments == InitShipments /\ [][NextShipments]_vars

\* Password changes handled statement by statement on the server's threads.
PasswordChanges ==
    \/ \E w \in Workers : Return(w)
    \/ \E w \in Workers, t \in issued, o, n \in PasswordInputs :
            ChangePasswordViewV2_post_save(w, t, o, n)
    \/ \E w \in Workers : ChangePasswordViewV2_post_update(w)
    \/ \E w \in Workers : ChangePasswordViewV2_post_raise(w)

NextAtomicity ==
    \/ SendResponse
    \/ \E u \in Principals : UserRegistrationView_create(u, "pw1", "pw1")
    \/ PasswordChanges

SpecAtomicity == Init /\ [][NextAtomicity]_vars

\* Logins handled statement by statement on the server's threads.
ConcurrentLogins ==
    \/ \E w \in Workers : Return(w)
    \/ \E w \in Workers, u \in UsernameInputs, p \in PasswordInputs :
            UserLoginViewV2_post_authenticate(w, u, p)
    \/ \E w \in Workers : UserLoginViewV2_post_get(w)
    \/ \E w \in Workers : UserLoginViewV2_post_upsert(w)

\* The accounts exist (created with manage.py createsuperuser, which opens
\* no session) and nobody has logged in.
InitLoginRace ==
    /\ now = 0 /\ ticks = 0 /\ jti = 0
    /\ users = [u \in Principals |-> [registered |-> TRUE, password |-> "pw1"]]
    /\ sessions = << >> /\ shifts = << >> /\ issued = {}
    /\ resp = NoResponse
    /\ shipments = << >>
    /\ routed = TRUE
    /\ tenant_id = "unset"
    /\ tenant_shipments = [db \in DATABASES |-> << >>]
    /\ threads = [w \in Workers |-> NoCall]
    /\ role = [u \in Principals |-> "shipper"]
    /\ user_tenant = MembersAtSetup

NextLoginRace == ConcurrentLogins

SpecLoginRace == InitLoginRace /\ [][NextLoginRace]_vars

\* Shift revocations handled statement by statement on the server's threads.
ConcurrentRevocations ==
    \/ \E w \in Workers : Return(w)
    \/ \E w \in Workers, t \in issued, i \in 1..(Len(shifts) + 1) :
            RevokeTokenShiftView_post_get(w, t, i)
    \/ \E w \in Workers : RevokeTokenShiftView_post_save(w)

NextRevokeRace ==
    \/ SendResponse
    \/ \E u \in Principals : UserRegistrationView_create(u, "pw1", "pw1")
    \/ ShiftRequests(FewTargets, {Omitted})
    \/ ConcurrentRevocations

SpecRevokeRace == Init /\ [][NextRevokeRace]_vars

\* Requests to the multi-tenant variant handled on the server's threads.
ConcurrentTenantRequests ==
    \/ \E w \in Workers : Return(w)
    \/ \E w \in Workers, a \in Auths : TenantMiddleware_call_set(w, a)
    \/ \E w \in Workers, l \in AppLabels, o \in Operations :
            TenantMiddleware_call_get_response(w, l, o)

NextTenantRace == ConcurrentTenantRequests

SpecTenantRace == Init /\ [][NextTenantRace]_vars

\* The user endpoints of the multi-tenant variant.
MemberRequests ==
    \/ \E m, pk \in Members, x \in TenantIdInputs : UserViewSet_partial_update(m, pk, x)
    \/ \E m \in Members : UserViewSet_me(m)

NextMembers == SendResponse \/ MemberRequests

SpecMembers == Init /\ [][NextMembers]_vars

\* Registration in api_v2.
RegistrationsV2 ==
    \E u \in Principals, p \in {Given("pw1"), Omitted}, r \in RoleInputs :
        UserRegistrationViewV2_post(u, p, r)

\* Two principals registering at either endpoint, logging in and out.
NextRegistrations ==
    \/ Common(Principals, {"pw1"})
    \/ RegistrationsV2
    \/ \E u \in UsernameInputs, p \in PasswordInputs : UserLoginViewV2_post(u, p)
    \/ \E t \in issued : UserLogoutView_post(t, Omitted)

SpecRegistrations == Init /\ [][NextRegistrations]_vars

\* The endpoints that change the status of a shipment.
ShipmentChanges ==
    \/ \E t \in issued, i \in 1..(Len(shipments) + 1),
          s \in ShipmentStatusInputs, d \in BOOLEAN :
            ShipmentUpdateViewV2_patch(t, i, s, d)
    \/ \E t \in issued, i \in 1..(Len(shipments) + 1) : ShipmentDetailView_destroy(t, i)
    \/ \E t \in issued, i \in 1..(Len(shipments) + 1) : TrackingEventListView_create(t, i)
    \/ \E t \in issued, i \in 1..(Len(shipments) + 1) : ShipmentCancelView_post(t, i)
    \/ \E t \in issued, c \in BOOLEAN : ShipmentCreateViewV2_post(t, c)

NextShipmentStates ==
    \/ SendResponse
    \/ \E u \in Principals : UserRegistrationView_create(u, "pw1", "pw1")
    \/ ShipmentChanges

SpecShipmentStates == Init /\ [][NextShipmentStates]_vars

\* Requests of the main project querying the models of an app.
MainQueries ==
    \E l \in MainAppLabels, o \in Operations : DatabaseRouter_query(l, o)

\* The two routers at work.
NextRouting == SendResponse \/ TenantQueries \/ MainQueries

SpecRouting == Init /\ [][NextRouting]_vars

\* One principal obtaining, exchanging and giving up credentials.
NextCredentials ==
    \/ Common({"alice"}, {"pw1"})
    \/ Logins
    \/ TokenRefresh
    \/ SessionEnds
    \/ SessionLists

SpecCredentials == Init /\ [][NextCredentials]_vars

\* The whole service and its variants.
Next ==
    \/ Common(Principals, Passwords)
    \/ Logins
    \/ SessionLists
    \/ SessionEnds
    \/ ShiftRequests(TargetInputs, ExpiresInputs)
    \/ ShiftRecords
    \/ Validation
    \/ TokenRefresh
    \/ Shipments
    \/ ShipmentChanges
    \/ RegistrationsV2
    \/ PasswordChanges
    \/ ConcurrentLogins
    \/ ConcurrentRevocations
    \/ TenantShipments
    \/ TenantQueries
    \/ ConcurrentTenantRequests
    \/ MemberRequests
    \/ MainQueries

Spec == Init /\ [][Next]_vars

\* ==== claims ==============================================================

\* C1: a session listing returns only sessions owned by the caller with
\* is_active = true and expires_at > now; an expired session is never
\* returned, whatever its active flag.
C1_ListActiveOnlyLive ==
    resp.op = "list_sessions" =>
        \A k \in 1..Len(resp.ids) :
            /\ resp.ids[k] \in DOMAIN sessions
            /\ sessions[resp.ids[k]].user = resp.user
            /\ sessions[resp.ids[k]].is_active
            /\ sessions[resp.ids[k]].expires_at > now

\* A listing that returns a live session and leaves out a session of the
\* caller that is still flagged active but has expired.
C1_Witness ==
    /\ resp.op = "list_sessions"
    /\ Len(resp.ids) > 0
    /\ \E i \in DOMAIN sessions :
        /\ sessions[i].user = resp.user
        /\ sessions[i].is_active
        /\ sessions[i].expires_at <= now
        /\ \A k \in 1..Len(resp.ids) : resp.ids[k] # i

\* C2: the session listing and the shift history of a principal never
\* contain a row owned by another principal, and revoke_shift on another
\* principal's shift answers 404 without showing anything of the record.
C2_Isolation ==
    /\ resp.op = "list_sessions" =>
        \A k \in 1..Len(resp.ids) : sessions[resp.ids[k]].user = resp.user
    /\ resp.op = "history" =>
        \A k \in 1..Len(resp.ids) : shifts[resp.ids[k]].user = resp.user
    /\ (/\ resp.op = "revoke_shift"
        /\ resp.id \in DOMAIN shifts
        /\ shifts[resp.id].user # resp.user)
        => resp.status = 404 /\ ~resp.detail

\* A principal was refused the revocation of an active shift of another principal.
C2_Witness ==
    /\ resp.op = "revoke_shift"
    /\ resp.status = 404
    /\ resp.id \in DOMAIN shifts
    /\ shifts[resp.id].user # resp.user
    /\ shifts[resp.id].is_active

\* C3: revoke_shift by the owner on an inactive record answers 404 and leaves
\* the table as it is, and no step makes an inactive record active again.
C3_RevokeTerminal ==
    [][/\ \A i \in DOMAIN shifts :
            ~shifts[i].is_active => i \in DOMAIN shifts' /\ ~shifts'[i].is_active
       /\ (/\ resp'.op = "revoke_shift"
           /\ resp'.id \in DOMAIN shifts
           /\ shifts[resp'.id].user = resp'.user
           /\ ~shifts[resp'.id].is_active)
           => resp'.status = 404 /\ shifts' = shifts]_vars

\* The owner's second revocation of a record was refused.
C3_Witness ==
    /\ resp.op = "revoke_shift"
    /\ resp.status = 404
    /\ resp.id \in DOMAIN shifts
    /\ shifts[resp.id].user = resp.user
    /\ ~shifts[resp.id].is_active

\* C4: a shift request whose target_service is the handling endpoint's own
\* source identity is answered 400, and no stored record has
\* source_service = target_service.
C4_SourceDiffersFromTarget ==
    /\ (resp.op = "request_shift" /\ resp.service = resp.source) => resp.status = 400
    /\ \A i \in DOMAIN shifts : shifts[i].source_service # shifts[i].target_service

\* C5: a shift request with expires_in below 300 or above 86400 is answered
\* 400 (no record stored); with expires_in 300 or 86400 and a target every
\* endpoint allows it is accepted.
C5_ExpiresInRange ==
    (resp.op = "request_shift" /\ resp.expires_in # Omitted) =>
        /\ (resp.expires_in[1] < EXPIRES_IN_MIN \/ resp.expires_in[1] > EXPIRES_IN_MAX)
            => resp.status = 400
        /\ (/\ resp.expires_in[1] \in {EXPIRES_IN_MIN, EXPIRES_IN_MAX}
            /\ resp.service \in allowed_services \cap valid_services)
            => resp.status = 200

\* C6: a successful password change leaves every session of the principal
\* that was active before it inactive with expires_at <= now, and the session
\* listing of the principal is then empty.
C6_CloseAllSessions ==
    [][(resp'.op = "change_password" /\ resp'.status = 200) =>
          /\ \A i \in DOMAIN sessions :
                (sessions[i].user = resp'.user /\ sessions[i].is_active) =>
                    /\ ~sessions'[i].is_active
                    /\ sessions'[i].expires_at <= now'
          /\ UserSessionListView_get_queryset(sessions', resp'.user, now') = << >>]_vars

\* A password change succeeded and closed a session of the principal at once.
C6_Witness ==
    /\ resp.op = "change_password"
    /\ resp.status = 200
    /\ \E i \in DOMAIN sessions :
        /\ sessions[i].user = resp.user
        /\ ~sessions[i].is_active
        /\ sessions[i].expires_at = now
        /\ sessions[i].last_activity < now

\* C7: once a password change of a principal has succeeded, every access
\* token issued to the principal before it is rejected by authentication.
C7_OldTokensRejected ==
    (resp.op = "change_password" /\ resp.status = 200) =>
        \A t \in issued : t.user = resp.user => ~JWTAuthentication(t)

\* C8: revoke_shift changes no session row; revoke_session, logout and the
\* password change change no shift row.
C8_IndependentRevocation ==
    [][/\ resp'.op = "revoke_shift" => sessions' = sessions
       /\ resp'.op \in {"revoke_session", "logout", "change_password"}
            => shifts' = shifts]_vars

\* A session was revoked while a shift of its owner is, and stays, active.
C8_Witness ==
    /\ resp.op = "revoke_session"
    /\ resp.status = 200
    /\ ~sessions[resp.id].is_active
    /\ \E i \in DOMAIN shifts : shifts[i].user = resp.user /\ shifts[i].is_active

\* C9: a successful shift request stores, as the newest row, a record owned
\* by the caller with the requested target, the endpoint's source identity,
\* expires_at = now + expires_in (3600 when omitted), is_active and
\* usage_count = 0.
C9_ShiftRecordAsRequested ==
    (resp.op = "request_shift" /\ resp.status = 200) =>
        /\ resp.id = Len(shifts)
        /\ shifts[resp.id].user = resp.user
        /\ shifts[resp.id].target_service = resp.service
        /\ shifts[resp.id].source_service = resp.source
        /\ shifts[resp.id].expires_at =
              now + (IF resp.expires_in = Omitted THEN SHIFT_TTL_DEFAULT
                     ELSE resp.expires_in[1])
        /\ shifts[resp.id].is_active
        /\ shifts[resp.id].usage_count = 0

\* C10: an unexpired credential minted by a shift to target T passes the
\* validation of service T and fails that of any other service.
C10_ShiftedTokenScoped ==
    resp.op = "validate" =>
        \A i \in DOMAIN shifts :
            (shifts[i].shifted_token = resp.token /\ resp.token.exp > now) =>
                /\ resp.service = shifts[i].target_service => resp.status = 200
                /\ resp.service # shifts[i].target_service => resp.status = 400

\* C11: a refresh credential that has just been exchanged for a new pair, or
\* presented at a logout, is no longer accepted by the token refresh endpoint.
C11_RefreshNotReplayable ==
    /\ (resp.op = "refresh" /\ resp.status = 200) => ~RefreshToken_verify(resp.refresh)
    /\ (resp.op = "logout" /\ resp.refresh.kind = "refresh")
            => ~RefreshToken_verify(resp.refresh)

\* C12: no stored TokenShift holds the whole credential presented with the
\* request: original_token is always its truncated form.
C12_OriginalTokenTruncated ==
    \A i \in DOMAIN shifts : shifts[i].truncated

\* C13: the target_service of every stored TokenShift is in allowed_services,
\* and a shift request naming a target outside it is answered 400 and stores
\* nothing.
C13_TargetAllowListed ==
    /\ [](\A i \in DOMAIN shifts : shifts[i].target_service \in allowed_services)
    /\ [][(resp'.op = "request_shift" /\ resp'.service \notin allowed_services)
            => resp'.status = 400 /\ shifts' = shifts]_vars

\* A request naming an allowed target was answered and its record is stored.
C13_Witness ==
    /\ resp.op = "request_shift"
    /\ resp.id \in DOMAIN shifts
    /\ shifts[resp.id].target_service = "shipping-service"
    /\ resp.service = "shipping-service"

\* C14: revoke_session on a session owned by another principal answers 404
\* and leaves the session table as it is.
C14_RevokeSessionForeign ==
    [][(/\ resp'.op = "revoke_session"
        /\ resp'.id \in DOMAIN sessions
        /\ sessions[resp'.id].user # resp'.user)
        => resp'.status = 404 /\ sessions' = sessions]_vars

\* A principal was refused the revocation of an active session of another.
C14_Witness ==
    /\ resp.op = "revoke_session"
    /\ resp.status = 404
    /\ resp.id \in DOMAIN sessions
    /\ sessions[resp.id].user # resp.user
    /\ sessions[resp.id].is_active
    /\ sessions[resp.id].expires_at > now

\* C15: revoke_session by the owner on an inactive session is answered with
\* an error and leaves the session, its expires_at included, as it is.
C15_RevokeSessionTwice ==
    [][(/\ resp'.op = "revoke_session"
        /\ resp'.id \in DOMAIN sessions
        /\ sessions[resp'.id].user = resp'.user
        /\ ~sessions[resp'.id].is_active)
        => resp'.status \in {400, 404, 409} /\ sessions' = sessions]_vars

\* C16: after a logout presenting access credential C, with the refresh token
\* omitted or a valid one, every session keyed by (principal, C) is inactive
\* with expires_at = the logout time.
C16_LogoutClosesSession ==
    (/\ resp.op = "logout"
     /\ resp.refresh = NoToken \/ RefreshToken_verify(resp.refresh))
        => \A i \in DOMAIN sessions :
              (sessions[i].user = resp.user /\ sessions[i].session_token = resp.token)
                  => ~sessions[i].is_active /\ sessions[i].expires_at = now

\* C17: a login whose username and password match a registered user
\* succeeds, and every successful login or registration leaves a session of
\* the principal keyed by the credential it issued, active, with
\* expires_at = request time + 24 hours.
C17_LoginOpensSession ==
    /\ (resp.op = "login" /\ resp.matches) => resp.status = 200
    /\ (resp.op \in {"login", "register"} /\ resp.status \in {200, 201}) =>
          \E i \in DOMAIN sessions :
              /\ sessions[i].user = resp.user
              /\ sessions[i].session_token = resp.token
              /\ sessions[i].is_active
              /\ sessions[i].expires_at = now + SESSION_TTL

\* C18: a row of a shift history is reported usable (is_expired false) exactly
\* when the record is active and now < expires_at.
C18_UsableIffActiveAndUnexpired ==
    resp.op = "history" =>
        \A k \in 1..Len(resp.ids) :
            (~resp.is_expired[k]) <=>
                (shifts[resp.ids[k]].is_active /\ now < shifts[resp.ids[k]].expires_at)

\* The row a response of the multi-tenant variant names belongs to the tenant
\* scope of the request.
TenantOwnRow(r, tables) ==
    /\ r.db \in DATABASES
    /\ r.id \in DOMAIN tables[r.db]
    /\ tables[r.db][r.id].tenant_id = r.tenant

\* The shipment a response of the shifting app names belongs to another
\* principal (or does not exist).
ForeignShipment(r, rows) ==
    ~(r.id \in DOMAIN rows /\ rows[r.id].tenant = r.user)

\* What an answered shipment request may show: listings hold only shipments
\* of the scope, and a request naming a resource outside the scope is a 404.
C19_ScopedAnswers ==
    /\ resp.op = "shipment_list" =>
          \A k \in DOMAIN resp.ids : shipments[resp.ids[k]].tenant = resp.user
    /\ resp.op \in {"shipment_cancel", "shipment_track"}
          /\ ForeignShipment(resp, shipments) => resp.status = 404
    /\ resp.op = "tenant_list" =>
          \A k \in DOMAIN resp.ids :
              tenant_shipments[resp.db][resp.ids[k]].tenant_id = resp.tenant
    /\ resp.op \in {"tenant_retrieve", "tenant_update_status"}
          /\ resp.status # 401
          /\ ~TenantOwnRow(resp, tenant_shipments) => resp.status = 404

\* What a shipment request may change: nothing when it names a resource
\* outside the scope of the principal.
C19_ScopedChanges ==
    /\ resp'.op \in {"shipment_cancel", "shipment_track"}
          /\ ForeignShipment(resp', shipments) => shipments' = shipments
    /\ resp'.op \in {"tenant_retrieve", "tenant_update_status"}
          /\ ~TenantOwnRow(resp', tenant_shipments) =>
                tenant_shipments' = tenant_shipments

\* C19: every read or write of a shipment (list, detail, update, cancel,
\* track) by an authenticated principal returns or changes only shipments of
\* the principal's tenant scope, principals without a tenant included; a
\* request naming another tenant's shipment is answered 404 and changes
\* nothing.
C19_TenantScoped == [](C19_ScopedAnswers) /\ [][C19_ScopedChanges]_vars

\* The partition the claim names for an app label under a tenant context.
C20_Partition(app_label, ctx) ==
    IF app_label \in {"admin", "auth", "contenttypes", "sessions", "authtoken",
                      "users_service"}
    THEN {"default"}
    ELSE IF app_label = "shipping_service"
    THEN IF ctx = "1" THEN {"tenant_1"}
         ELSE IF ctx = "2" THEN {"tenant_2"}
         ELSE IF ctx = "None" THEN {"tenant_None"}
         ELSE {}
    ELSE {"default", "tenant_1", "tenant_2", "tenant_None"}

\* C20: the router sends the built-in apps and users_service to 'default',
\* shipping_service to the database named after the tenant the middleware
\* set for the request, and a write of an app where it sends a read.
C20_RoutesByTenant ==
    /\ resp.op = "route" =>
          /\ resp.tenant = tenant_id
          /\ resp.db \in C20_Partition(resp.service, tenant_id)
    /\ \A l \in AppLabels :
          TenantRouter_db_for_write(l, tenant_id) =
              TenantRouter_db_for_read(l, tenant_id)

\* A write of shipping_service data in a request of tenant 2 is routed to
\* tenant_2.
C20_Witness ==
    /\ resp.op = "route" /\ resp.service = "shipping_service"
    /\ resp.source = "write" /\ tenant_id = "2" /\ resp.db = "tenant_2"

\* A session is live: active and not yet expired.
SessionLive(s, t) == s.is_active /\ s.expires_at > t

\* C21: a session that has ended (revoked, logged out, closed by a password
\* change or past its expires_at) stays in the table and never again has
\* is_active true with expires_at > now, whatever follows, a new login of
\* its principal included.
C21_SessionEndTerminal ==
    [][\A i \in DOMAIN sessions :
          ~SessionLive(sessions[i], now) =>
              /\ i \in DOMAIN sessions'
              /\ ~SessionLive(sessions'[i], now')]_vars

\* The principal of an ended session has logged in again: the ended session
\* is still ended next to the new one.
C21_Witness ==
    /\ resp.op = "login" /\ resp.status = 200
    /\ \E i \in DOMAIN sessions :
          /\ i # resp.id
          /\ sessions[i].user = resp.user
          /\ ~SessionLive(sessions[i], now)
    /\ SessionLive(sessions[resp.id], now)

\* C22: a password change is all or nothing: whenever a request has replaced
\* the password of its principal, failed requests included, no session of the
\* principal that was active when the request arrived is still active.
C22_PasswordChangeAtomic ==
    \A w \in Workers :
        (/\ threads[w].op = "change_password"
         /\ threads[w].new_password # ""
         /\ users[threads[w].user].password = threads[w].new_password)
            => \A i \in threads[w].ids : ~sessions[i].is_active

\* C23: whatever the interleaving of concurrent logins, the session table has
\* at most one row for a pair of principal and session credential.
C23_OneRowPerKey ==
    \A i, j \in DOMAIN sessions :
        (/\ sessions[i].user = sessions[j].user
         /\ sessions[i].session_token = sessions[j].session_token) => i = j

\* Two logins of one principal overlapped: both looked the key up before
\* either wrote, and both rows are written.
C23_Witness ==
    /\ threads[1].op = "login" /\ threads[2].op = "login"
    /\ threads[1].pc = "done" /\ threads[2].pc = "upsert"
    /\ threads[1].user = threads[2].user
    /\ threads[1].status = 200
    /\ threads[2].id = 0
    /\ Len(sessions) = 1

\* C24: of two revoke_shift calls of the owner on one shift record, calls
\* whose lookup and save interleave included, at most one is answered 200 and
\* the other is answered 404.
C24_OneRevocationSucceeds ==
    \A w, v \in Workers :
        (/\ w # v
         /\ threads[w].op = "revoke_shift" /\ threads[v].op = "revoke_shift"
         /\ threads[w].pc = "done" /\ threads[v].pc = "done"
         /\ threads[w].id = threads[v].id
         /\ threads[w].user = threads[v].user
         /\ threads[w].status = 200)
            => threads[v].status = 404

\* C25: whatever the interleaving of requests of different tenants, a query
\* on tenant-owned data is routed to the database of the tenant in the
\* request's own credential, never to that of another request in flight.
C25_RoutedByOwnTenant ==
    \A w \in Workers :
        (/\ threads[w].op = "tenant_query" /\ threads[w].pc = "done"
         /\ threads[w].app = "shipping_service")
            => /\ threads[w].tenant = "1" => threads[w].db = "tenant_1"
               /\ threads[w].tenant = "2" => threads[w].db = "tenant_2"

\* A request of tenant 1 was routed to tenant_1 although a request of tenant 2
\* had passed the middleware on the other thread and has not yet been
\* answered.
C25_Witness ==
    /\ threads[1].op = "tenant_query" /\ threads[1].pc = "done"
    /\ threads[1].app = "shipping_service"
    /\ threads[1].tenant = "1" /\ threads[1].db = "tenant_1"
    /\ threads[2].op = "tenant_query" /\ threads[2].pc = "view"
    /\ threads[2].tenant = "2"

\* C26: once a user belongs to a tenant, no request of any principal moves
\* the user to another tenant.
C26_AffiliationImmutable ==
    [][\A m \in Members :
          user_tenant[m] \in Tenants => user_tenant'[m] = user_tenant[m]]_vars

\* C27: the role of every principal is one of admin, shipper, receiver and
\* driver, whichever endpoint registered the principal and whatever role the
\* request named.
C27_RoleInChoices ==
    \A u \in Principals : users[u].registered => role[u] \in ROLE_CHOICES

\* C29: the session opened by a login or a registration is keyed by the
\* access token the answer carries, so that a logout presenting that token
\* finds the session.
C29_SessionKeyIsReturnedToken ==
    (resp.op \in {"login", "register"} /\ resp.status \in {200, 201}) =>
        /\ resp.id \in DOMAIN sessions
        /\ sessions[resp.id].session_token = resp.token

\* C28: a cancelled shipment stays cancelled whatever its owner does next
\* (cancel, delete, update, status patch, tracking event), and cancelling it
\* again is answered with an error.
C28_CancelledTerminal ==
    [][/\ \A i \in DOMAIN shipments :
             shipments[i].status = "cancelled" =>
                 /\ i \in DOMAIN shipments'
                 /\ shipments'[i].status = "cancelled"
       /\ (/\ resp'.op = "shipment_cancel"
           /\ resp'.id \in DOMAIN shipments
           /\ shipments[resp'.id].tenant = resp'.user
           /\ shipments[resp'.id].status = "cancelled") => resp'.status >= 400]_vars

\* C30: for every app label and every tenant context the middleware can set
\* (a tenant id, or none), the database a router names for a read or a write
\* is a configured one on which allow_migrate does not forbid the tables of
\* the app.
C30_RoutedWhereMigrated ==
    /\ resp.op = "route" =>
          /\ resp.db \in DATABASES
          /\ TenantRouter_allow_migrate(resp.db, resp.service) # "False"
    /\ resp.op = "route_main" =>
          /\ resp.db \in MainDatabases
          /\ DatabaseRouter_allow_migrate(resp.db, resp.service) # "False"

====
